---- MODULE Spec2Model ----
(***************************************************************************)
(* Model of the macros of the `average` crate (src/src/macros.rs):         *)
(*   - concatenate!      the composite estimator generated from an ordered *)
(*                       list of (statistic, estimator) pairs;             *)
(*   - assert_almost_eq! the approximate-equality assertion.               *)
(* The leaf estimators (Min, Max, Mean) live in modules that are only      *)
(* declared in src/tests/integration/main.rs; they are modelled from       *)
(* sections 4.1 and 4.2 of the specification, in exact arithmetic.         *)
(***************************************************************************)
EXTENDS Integers, Sequences, FiniteSets, TLC

VARIABLES ty, e, hist, calls, trace, lastOp, qstat, out,
          kind, parts, phist, merged, order,
          lhs, rhs, prec, res

cvars == <<ty, e, hist, calls, trace, lastOp, qstat, out>>
mvars == <<kind, parts, phist, merged, order>>
avars == <<lhs, rhs, prec, res>>
vars == <<cvars, mvars, avars>>

(***************************************************************************)
(* Bounds of the model.                                                    *)
(***************************************************************************)
MaxAdds == 3
ObsMax == 1
Obs == (0 - 1)..ObsMax

(***************************************************************************)
(* Exact rational arithmetic standing for f64 arithmetic on the small      *)
(* integer observations of the model.                                      *)
(***************************************************************************)
Abs(n) == IF n < 0 THEN 0 - n ELSE n

RECURSIVE GCD(_, _)
GCD(m, n) == IF n = 0 THEN m ELSE GCD(n, m % n)

Rat(n, d) ==
    LET g == GCD(Abs(n), Abs(d))
        sgn == IF d < 0 THEN 0 - 1 ELSE 1
    IN  [num |-> sgn * (n \div g), den |-> sgn * (d \div g)]

RatAdd(p, q) == Rat(p.num * q.den + q.num * p.den, p.den * q.den)
RatSub(p, q) == Rat(p.num * q.den - q.num * p.den, p.den * q.den)
RatScale(p, k) == Rat(p.num * k, p.den)
RatDivInt(p, k) == Rat(p.num, p.den * k)

\* The f64 an accessor returns: a defined number, or the undefined value.
Value(p) == [def |-> TRUE, num |-> p.num, den |-> p.den]
Undefined == [def |-> FALSE, num |-> 0, den |-> 1]

(***************************************************************************)
(* Leaf estimators.                                                        *)
(***************************************************************************)
Leaves == {"Min", "Max", "Mean"}

LeafStatistic(k) ==
    CASE k = "Min" -> "min"
      [] k = "Max" -> "max"
      [] k = "Mean" -> "mean"

LeafDefault(k) ==
    IF k = "Mean" THEN [n |-> 0, avg |-> Rat(0, 1)]
    ELSE [set |-> FALSE, x |-> 0]

LeafIsEmpty(k, s) == IF k = "Mean" THEN s.n = 0 ELSE ~s.set

LeafAdd(k, s, x) ==
    CASE k = "Min" ->
            [set |-> TRUE, x |-> IF s.set /\ s.x <= x THEN s.x ELSE x]
      [] k = "Max" ->
            [set |-> TRUE, x |-> IF s.set /\ s.x >= x THEN s.x ELSE x]
      [] k = "Mean" ->
            [n |-> s.n + 1,
             avg |-> RatAdd(s.avg, RatDivInt(RatSub(Rat(x, 1), s.avg), s.n + 1))]

LeafStat(k, s) ==
    IF LeafIsEmpty(k, s) THEN Undefined
    ELSE IF k = "Mean" THEN Value(s.avg) ELSE Value(Rat(s.x, 1))

LeafMergeUnweighted(k, s, o) ==
    IF LeafIsEmpty(k, o) THEN s
    ELSE IF LeafIsEmpty(k, s) THEN o
    ELSE CASE k = "Min" -> [set |-> TRUE, x |-> IF s.x <= o.x THEN s.x ELSE o.x]
           [] k = "Max" -> [set |-> TRUE, x |-> IF s.x >= o.x THEN s.x ELSE o.x]
           [] k = "Mean" ->
                [n |-> s.n + o.n, avg |-> RatDivInt(RatAdd(s.avg, o.avg), 2)]
LeafMerge(k, s, o) ==
    IF LeafIsEmpty(k, o) THEN s
    ELSE IF LeafIsEmpty(k, s) THEN o
    ELSE CASE k = "Min" -> [set |-> TRUE, x |-> IF s.x <= o.x THEN s.x ELSE o.x]
           [] k = "Max" -> [set |-> TRUE, x |-> IF s.x >= o.x THEN s.x ELSE o.x]
           [] k = "Mean" ->
                [n |-> s.n + o.n,
                 avg |-> RatDivInt(RatAdd(RatScale(s.avg, s.n), RatScale(o.avg, o.n)),
                                   s.n + o.n)]

\* What a leaf estimator offers: add, merge, an empty default, its statistic.
LeafProvides(k) == {"add", "merge", "default", LeafStatistic(k)}

(***************************************************************************)
(* concatenate!: the composite types of the model.  Each entry is one      *)
(* invocation  concatenate!(Name, statistic, Estimator, ...)  given as the *)
(* ordered list of its (statistic, estimator) pairs.  MinMax is the        *)
(* invocation of the macro's documentation; Inner and Outer nest           *)
(* composites inside composites.                                           *)
(***************************************************************************)
Decls ==
    [MinMax |-> << <<"min", "Min">>, <<"max", "Max">> >>,
     MaxMin |-> << <<"max", "Max">>, <<"min", "Min">> >>,
     Stats  |-> << <<"min", "Min">>, <<"max", "Max">>, <<"mean", "Mean">> >>,
     Inner  |-> << <<"min", "MinMax">>, <<"max", "MinMax">> >>,
     Outer  |-> << <<"min", "Inner">>, <<"mean", "Mean">>, <<"max", "MaxMin">> >>]

Composites == DOMAIN Decls

\* The iterator of the documentation example, (1..6).map(Into::into).
DocExample == <<1, 2, 3, 4, 5>>

\* struct $name { $( $statistic: $estimator, )* }
StatNames(E) == {Decls[E][i][1] : i \in 1..Len(Decls[E])}
EstimatorOf(E, stat) ==
    Decls[E][CHOOSE i \in 1..Len(Decls[E]) : Decls[E][i][1] = stat][2]

\* The order in which the repetition $( ... )* expands: that of the declaration.
DeclOrderReversed(E) == [i \in 1..Len(Decls[E]) |-> Len(Decls[E]) + 1 - i]
DeclOrder(E) == [i \in 1..Len(Decls[E]) |-> i]

\* The methods and trait methods the expansion gives the type $name.
ProvidesWithMerge(E) ==
    IF E \in Leaves THEN LeafProvides(E)
    ELSE {"new", "add", "merge", "default", "from_iter"} \cup StatNames(E)
Provides(E) ==
    IF E \in Leaves THEN LeafProvides(E)
    ELSE {"new", "add", "default", "from_iter"} \cup StatNames(E)

\* What the macro asks of an $estimator used under the name $statistic.
Requires(stat) == {"add", "default", stat}

RECURSIVE New(_), DefaultOf(_), Add(_, _, _, _), AddFieldsIn(_, _, _, _, _, _)
RECURSIVE AddFields(_, _, _, _, _), Accessor(_, _, _), FromIterLoop(_, _, _, _)

\* pub fn new() -> $name
New(E) == [stat \in StatNames(E) |-> DefaultOf(EstimatorOf(E, stat))]

\* impl Default for $name { fn default() -> $name { $name::new() } }
DefaultSeeded(E) ==
    IF E \in Leaves THEN LeafDefault(E) ELSE Add(E, New(E), 0, <<>>).st
DefaultOf(E) == IF E \in Leaves THEN LeafDefault(E) ELSE New(E)

\* The statements self.$statistic.add(x) of the fields ord[i], ord[i+1], ...
\* run in that order on the composite state s.  The result is the new state
\* and the add calls made, each with the path of the estimator receiving it.
AddFieldsIn(E, s, x, path, ord, i) ==
    IF i > Len(ord) THEN [st |-> s, calls |-> <<>>]
    ELSE LET stat == Decls[E][ord[i]][1]
             r == Add(Decls[E][ord[i]][2], s[stat], x, Append(path, stat))
             rest == AddFieldsIn(E, [s EXCEPT ![stat] = r.st], x, path, ord, i + 1)
         IN  [st |-> rest.st, calls |-> r.calls \o rest.calls]

\* The body of add: $( self.$statistic.add(x); )*
AddFieldsSkip(E, s, x, path, i) ==
    AddFieldsIn(E, s, x, path, SubSeq(DeclOrder(E), 1, Len(Decls[E]) - 1), i)
AddFieldsTwice(E, s, x, path, i) ==
    AddFieldsIn(E, s, x, path, DeclOrder(E) \o <<1>>, i)
AddFields(E, s, x, path, i) == AddFieldsIn(E, s, x, path, DeclOrder(E), i)

\* pub fn add(&mut self, x: f64), called on the estimator at path.
Add(E, s, x, path) ==
    IF E \in Leaves
    THEN [st |-> LeafAdd(E, s, x), calls |-> << [path |-> path, x |-> x] >>]
    ELSE LET r == AddFields(E, s, x, path, 1)
         IN  [st |-> r.st, calls |-> << [path |-> path, x |-> x] >> \o r.calls]

\* pub fn $statistic(&self) -> f64 { self.$statistic.$statistic() }
\* The result is the state the call leaves and the value it returns.
AccessorFirst(E, s, stat) ==
    IF E \in Leaves THEN [st |-> s, val |-> LeafStat(E, s)]
    ELSE LET first == Decls[E][1][1]
             sub == Accessor(Decls[E][1][2], s[first], first)
         IN  [st |-> s, val |-> sub.val]
AccessorReset(E, s, stat) ==
    IF E \in Leaves THEN [st |-> LeafDefault(E), val |-> LeafStat(E, s)]
    ELSE LET sub == Accessor(EstimatorOf(E, stat), s[stat], stat)
         IN  [st |-> [s EXCEPT ![stat] = sub.st], val |-> sub.val]
Accessor(E, s, stat) ==
    IF E \in Leaves THEN [st |-> s, val |-> LeafStat(E, s)]
    ELSE LET sub == Accessor(EstimatorOf(E, stat), s[stat], stat)
         IN  [st |-> [s EXCEPT ![stat] = sub.st], val |-> sub.val]

\* for i in iter { e.add(i); }
FromIterLoop(E, acc, seq, i) ==
    IF i > Len(seq) THEN acc
    ELSE LET r == Add(E, acc.st, seq[i], <<>>)
         IN  FromIterLoop(E, [st |-> r.st, calls |-> r.calls,
                              trace |-> acc.trace \o r.calls], seq, i + 1)

\* fn from_iter<T>(iter: T) -> $name
FromIterSkipFirst(E, seq) ==
    FromIterLoop(E, [st |-> New(E), calls |-> <<>>, trace |-> <<>>], seq, 2)
FromIter(E, seq) ==
    FromIterLoop(E, [st |-> New(E), calls |-> <<>>, trace |-> <<>>], seq, 1)

(***************************************************************************)
(* assert_almost_eq!: f64 values are the integers of a small range, the    *)
(* two infinities and NaN, with the IEEE 754 rules for -, abs and >.       *)
(***************************************************************************)
FMax == 2
Num(v) == [k |-> "num", v |-> v]
PInf == [k |-> "inf", v |-> 1]
NInf == [k |-> "inf", v |-> 0 - 1]
NaN == [k |-> "nan", v |-> 0]
FVals == {Num(v) : v \in (0 - FMax)..FMax} \cup {PInf, NInf, NaN}

FNeg(p) == IF p.k = "nan" THEN NaN ELSE [k |-> p.k, v |-> 0 - p.v]
FSub(p, q) ==
    CASE p.k = "nan" \/ q.k = "nan" -> NaN
      [] p.k = "num" /\ q.k = "num" -> Num(p.v - q.v)
      [] p.k = "inf" /\ q.k = "num" -> p
      [] p.k = "num" /\ q.k = "inf" -> FNeg(q)
      [] OTHER -> IF p.v = q.v THEN NaN ELSE p
FAbs(p) ==
    CASE p.k = "nan" -> NaN
      [] p.k = "inf" -> PInf
      [] OTHER -> Num(Abs(p.v))
\* The place of a number on the extended real line.
Ord(p) == IF p.k = "inf" THEN p.v * (4 * FMax + 4) ELSE p.v
FGt(p, q) == p.k # "nan" /\ q.k # "nan" /\ Ord(p) > Ord(q)
FLe(p, q) == p.k # "nan" /\ q.k # "nan" /\ Ord(p) <= Ord(q)

\* let diff = ($a - $b).abs(); if diff > $prec { panic!(...) }
AssertAlmostEq(p, q, pr) ==
    LET diff == FAbs(FSub(p, q))
    IN  IF FGt(diff, pr) THEN "panic" ELSE "ok"

(***************************************************************************)
(* The composite under use: ty is its type, e its value, hist the          *)
(* observations fed to it since it was built, calls the add calls of the   *)
(* last composite add, trace all add calls since it was built, qstat and   *)
(* out the last accessor called on it and the value it returned.           *)
(***************************************************************************)
Inputs == UNION {[1..n -> Obs] : n \in 0..MaxAdds} \cup {DocExample}

CompositeIdle ==
    /\ ty = "MinMax"
    /\ e = New("MinMax")
    /\ hist = <<>>
    /\ calls = <<>>
    /\ trace = <<>>
    /\ lastOp = "new"
    /\ qstat = "none"
    /\ out = Undefined

MergeIdle ==
    /\ kind = "Min"
    /\ parts = [p \in 1..3 |-> LeafDefault("Min")]
    /\ phist = [p \in 1..3 |-> <<>>]
    /\ merged = LeafDefault("Min")
    /\ order = <<>>

AssertIdle ==
    /\ lhs = Num(0)
    /\ rhs = Num(0)
    /\ prec = Num(0)
    /\ res = "none"

Init ==
    /\ ty \in Composites
    /\ e = New(ty)
    /\ hist = <<>>
    /\ calls = <<>>
    /\ trace = <<>>
    /\ lastOp = "new"
    /\ qstat = "none"
    /\ out = Undefined
    /\ MergeIdle
    /\ AssertIdle

\* A composite is built by new(), default() or from_iter(); the one built
\* replaces the one in use, on which no accessor has been called yet.
DoNew ==
    /\ e' = New(ty)
    /\ hist' = <<>>
    /\ calls' = <<>>
    /\ trace' = <<>>
    /\ lastOp' = "new"
    /\ qstat' = "none"
    /\ out' = Undefined
    /\ UNCHANGED <<ty, mvars, avars>>

DoDefault ==
    /\ e' = DefaultOf(ty)
    /\ hist' = <<>>
    /\ calls' = <<>>
    /\ trace' = <<>>
    /\ lastOp' = "default"
    /\ qstat' = "none"
    /\ out' = Undefined
    /\ UNCHANGED <<ty, mvars, avars>>

\* from_iter is taken on a freshly built composite; DoNew is always enabled,
\* so every state from_iter can produce is still reached.
DoCollect ==
    /\ hist = <<>>
    /\ \E seq \in Inputs :
          LET r == FromIter(ty, seq)
          IN  /\ e' = r.st
              /\ calls' = r.calls
              /\ trace' = r.trace
              /\ hist' = seq
    /\ lastOp' = "from_iter"
    /\ qstat' = "none"
    /\ out' = Undefined
    /\ UNCHANGED <<ty, mvars, avars>>

DoAdd ==
    /\ Len(hist) < MaxAdds
    /\ \E x \in Obs :
          LET r == Add(ty, e, x, <<>>)
          IN  /\ e' = r.st
              /\ calls' = r.calls
              /\ trace' = trace \o r.calls
              /\ hist' = Append(hist, x)
    /\ lastOp' = "add"
    /\ UNCHANGED <<ty, qstat, out, mvars, avars>>

DoQuery ==
    /\ \E stat \in StatNames(ty) :
          LET r == Accessor(ty, e, stat)
          IN  /\ e' = r.st
              /\ out' = r.val
              /\ qstat' = stat
    /\ lastOp' = "query"
    /\ UNCHANGED <<ty, hist, calls, trace, mvars, avars>>

Next == DoNew \/ DoDefault \/ DoCollect \/ DoAdd \/ DoQuery

Spec == Init /\ [][Next]_vars

(***************************************************************************)
(* Partitioned accumulation: the observations of a stream are split over   *)
(* three estimators of one kind, parts[1..3], each fed its own part        *)
(* phist[p]; merged is the result of merging them in the order and         *)
(* grouping given by order.                                                *)
(***************************************************************************)
MaxPart == 3
Estimators == Leaves \cup {"MinMax", "Stats"}
MergeOrders ==
    {<<g, p[1], p[2], p[3]>> : g \in {"left", "right"}, p \in Permutations(1..3)}

\* Accumulating a whole sequence in one estimator of kind K.
RECURSIVE Accumulate(_, _)
Accumulate(K, seq) ==
    IF seq = <<>> THEN DefaultOf(K)
    ELSE Add(K, Accumulate(K, SubSeq(seq, 1, Len(seq) - 1)), seq[Len(seq)], <<>>).st

MergeIn(K, ps, o) ==
    IF o[1] = "left"
    THEN LeafMerge(K, LeafMerge(K, ps[o[2]], ps[o[3]]), ps[o[4]])
    ELSE LeafMerge(K, ps[o[2]], LeafMerge(K, ps[o[3]], ps[o[4]]))

InitMerge ==
    /\ kind \in Estimators
    /\ parts = [p \in 1..3 |-> DefaultOf(kind)]
    /\ phist = [p \in 1..3 |-> <<>>]
    /\ merged = DefaultOf(kind)
    /\ order = <<>>
    /\ CompositeIdle
    /\ AssertIdle

PartAdd ==
    /\ order = <<>>
    /\ Len(phist[1]) + Len(phist[2]) + Len(phist[3]) < MaxPart
    /\ \E p \in 1..3, x \in Obs :
          /\ parts' = [parts EXCEPT ![p] = Add(kind, parts[p], x, <<>>).st]
          /\ phist' = [phist EXCEPT ![p] = Append(phist[p], x)]
    /\ UNCHANGED <<kind, merged, order, cvars, avars>>

DoMerge ==
    /\ order = <<>>
    /\ "merge" \in Provides(kind)
    /\ \E o \in MergeOrders :
          /\ merged' = MergeIn(kind, parts, o)
          /\ order' = o
    /\ UNCHANGED <<kind, parts, phist, cvars, avars>>

NextMerge == PartAdd \/ DoMerge

SpecMerge == InitMerge /\ [][NextMerge]_vars

(***************************************************************************)
(* Calls of assert_almost_eq!(lhs, rhs, prec); res is what the call did.   *)
(***************************************************************************)
InitAssert ==
    /\ AssertIdle
    /\ CompositeIdle
    /\ MergeIdle

DoAssert ==
    /\ \E p \in FVals, q \in FVals, pr \in FVals :
          /\ lhs' = p
          /\ rhs' = q
          /\ prec' = pr
          /\ res' = AssertAlmostEq(p, q, pr)
    /\ UNCHANGED <<cvars, mvars>>

NextAssert == DoAssert

SpecAssert == InitAssert /\ [][NextAssert]_vars

(***************************************************************************)
(* Helpers of the properties.                                              *)
(***************************************************************************)
\* The observations the log records as passed to the estimator at path.
XsTo(log, path) ==
    LET hits == SelectSeq(log, LAMBDA c : c.path = path)
    IN  [i \in 1..Len(hits) |-> hits[i].x]

\* The paths of the sub-estimators declared directly in E.
FieldPaths(E) == {<<stat>> : stat \in StatNames(E)}

\* The paths of the leaf estimators of E, through nested composites.
RECURSIVE LeafPaths(_)
LeafPaths(E) ==
    IF E \in Leaves THEN {<<>>}
    ELSE UNION {{<<stat>> \o p : p \in LeafPaths(EstimatorOf(E, stat))} :
                stat \in StatNames(E)}

RECURSIVE TypeAt(_, _)
TypeAt(E, path) ==
    IF path = <<>> THEN E ELSE TypeAt(EstimatorOf(E, Head(path)), Tail(path))

RECURSIVE StateAt(_, _)
StateAt(s, path) == IF path = <<>> THEN s ELSE StateAt(s[Head(path)], Tail(path))

\* The leaf estimator behind the accessor stat of E.
RECURSIVE LeafOf(_, _)
LeafOf(E, stat) == IF E \in Leaves THEN E ELSE LeafOf(EstimatorOf(E, stat), stat)

\* A standalone leaf estimator of kind k fed seq, one observation at a time.
RECURSIVE Standalone(_, _)
Standalone(k, seq) ==
    IF seq = <<>> THEN LeafDefault(k)
    ELSE LeafAdd(k, Standalone(k, SubSeq(seq, 1, Len(seq) - 1)), seq[Len(seq)])

Last(seq) == seq[Len(seq)]

(***************************************************************************)
(* Properties of the composite (specification Spec).                       *)
(***************************************************************************)
\* C1: one composite add(x) calls add(x) on every declared sub-estimator
\* exactly once, so after n composite adds every declared sub-estimator has
\* been passed exactly the n observations, in order.
C1_EverySubEstimatorOnce ==
    /\ hist # <<>> =>
          \A p \in FieldPaths(ty) : XsTo(calls, p) = <<Last(hist)>>
    /\ \A p \in FieldPaths(ty) : XsTo(trace, p) = hist

C1_Witness ==
    /\ ty = "Stats"
    /\ lastOp = "add"
    /\ Len(hist) = 3
    /\ e["mean"].n = 3

\* C2: every accessor of a composite fed a sequence returns what the
\* standalone estimator of that statistic returns when fed the same
\* sequence, whatever else the composite holds; collecting 1..5 into MinMax
\* gives min 1 and max 5.
C2_SameAsStandalone ==
    /\ \A stat \in StatNames(ty) :
          Accessor(ty, e, stat).val
             = LeafStat(LeafOf(ty, stat), Standalone(LeafOf(ty, stat), hist))
    /\ (ty = "MinMax" /\ hist = DocExample) =>
          /\ Accessor(ty, e, "min").val = Value(Rat(1, 1))
          /\ Accessor(ty, e, "max").val = Value(Rat(5, 1))

C2_Witness ==
    /\ ty = "MinMax"
    /\ hist = DocExample
    /\ lastOp = "query"
    /\ qstat = "max"
    /\ out = Value(Rat(5, 1))

C4_FromIterIsFold ==
    /\ FromIter(ty, hist).st = e
    /\ FromIter(ty, hist).trace = trace
    /\ FromIter(ty, <<>>).st = New(ty)

C4_Witness ==
    /\ lastOp = "from_iter"
    /\ Len(hist) = 3
    /\ hist[1] # hist[2]
    /\ ty = "Outer"

\* C5: after new() every leaf estimator of the composite is empty, and
\* default() gives the composite new() gives.
C5_NewIsEmpty ==
    lastOp \in {"new", "default"} =>
        /\ e = New(ty)
        /\ \A p \in LeafPaths(ty) : LeafIsEmpty(TypeAt(ty, p), StateAt(e, p))

C5_Witness ==
    /\ lastOp = "default"
    /\ ty = "Outer"
    /\ e["min"]["max"]["min"] = LeafDefault("Min")

\* C6: an accessor call leaves the composite as it was and returns the
\* statistic of that state; asked again it returns the same value; and the
\* state after a later add is the one the observations alone determine.
C6_QueryIsPure ==
    [][/\ lastOp' = "query" => (e' = e /\ out' = Accessor(ty, e, qstat').val)
       /\ (lastOp = "query" /\ lastOp' = "query" /\ qstat' = qstat) => out' = out
       /\ lastOp' = "add" => e' = FromIter(ty, hist').st]_vars

C6_Witness ==
    /\ lastOp = "query"
    /\ ty = "Stats"
    /\ qstat = "mean"
    /\ Len(hist) = 2
    /\ out.def

\* C8: the add calls of one composite add reach the declared sub-estimators
\* in the order of the declaration, on every call, and running them in any
\* other order gives the same state.
C8_DeclaredOrder ==
    /\ hist # <<>> =>
          SelectSeq(calls, LAMBDA c : Len(c.path) = 1)
             = [i \in 1..Len(Decls[ty]) |->
                   [path |-> <<Decls[ty][i][1]>>, x |-> Last(hist)]]
    /\ \A x \in Obs : \A ord \in Permutations(1..Len(Decls[ty])) :
          AddFieldsIn(ty, e, x, <<>>, ord, 1).st = Add(ty, e, x, <<>>).st

C8_Witness ==
    /\ ty = "Outer"
    /\ lastOp = "add"
    /\ Len(hist) = 2
    /\ Len(calls) = 12

\* The Estimator capability of the specification: accept an observation,
\* report a count, merge with another of its kind, have an empty default.
Capability == {"add", "count", "merge", "default"}

Whole == phist[1] \o phist[2] \o phist[3]

\* Merge is commutative and associative on the parts, and merging the parts
\* in the order done gives the statistic of the whole sequence.
MergeLaws(K) ==
    /\ \A i, j \in 1..3 :
          LeafStat(K, LeafMerge(K, parts[i], parts[j]))
             = LeafStat(K, LeafMerge(K, parts[j], parts[i]))
    /\ \A i, j, l \in 1..3 :
          LeafStat(K, LeafMerge(K, LeafMerge(K, parts[i], parts[j]), parts[l]))
             = LeafStat(K, LeafMerge(K, parts[i], LeafMerge(K, parts[j], parts[l])))
    /\ order # <<>> => LeafStat(K, merged) = LeafStat(K, Accumulate(K, Whole))

C10_PassesOnlyWithinPrec ==
    res # "none" =>
        /\ res = "panic" <=> FGt(FAbs(FSub(lhs, rhs)), prec)
        /\ FAbs(FSub(lhs, rhs)) = prec /\ prec.k # "nan" => res = "ok"
        /\ res = AssertAlmostEq(rhs, lhs, prec)
        /\ res = "ok" => FLe(FAbs(FSub(lhs, rhs)), prec)

====
